---- MODULE Spec2Model ----
(***************************************************************************)
(* The object-store backed filesystem of tinylicious' git storage route   *)
(* (S3PromisifiedFileSystem, s3Filesystem.ts lines 114-298): the path     *)
(* normalizer, the eight IBackend operations and the flat object store    *)
(* they talk to.                                                           *)
(*                                                                         *)
(* A JavaScript string is a sequence of one-character strings, a         *)
(* Uint8Array a sequence of byte values, a text payload a sequence of      *)
(* Unicode code points.                                                    *)
(*                                                                         *)
(* The module also holds the array proxy of property-proxy                 *)
(* (arrayProxyHandler.ts): setLength, the set trap and lastCalledMethod.   *)
(***************************************************************************)
EXTENDS Integers, Sequences, FiniteSets, TLC

VARIABLES
    store,      \* the bucket: a function from the keys present to their bodies
    last,       \* the call that completed last: its arguments, result and store requests
    written,    \* history: path -> the writeFile(path, d) not disturbed since
    unlinked,   \* history: paths written and then unlinked, no put since
    nin,        \* normalizer check: the path under test
    nout,       \* normalizer check: the successive normalizePath results
    calls,      \* concurrent callers: the call each has in progress, and how far it got
    applied,    \* concurrent callers: whose request the store applied last (0: none yet)
    target,     \* array proxy: the ComponentArray, its ArrayProperty and lastCalledMethod
    running,    \* array proxy: the proxied methods that are executing, outermost first
    trapped     \* array proxy: the trap that ran last and what came of it

vars == <<store, last, written, unlinked, nin, nout, calls, applied, target, running, trapped>>

\* the state of the array proxy
proxyVars == <<target, running, trapped>>

\* the state of the filesystem backend and of its checks
fsVars == <<store, last, written, unlinked, nin, nout, calls, applied>>

\* a call not made, an argument not given, a result without a value
NoValue == <<>>

\* the record of a completed call, before the first call
NoCall ==
    [op |-> "none", path |-> <<>>, input |-> NoValue, encoding |-> "none", fault |-> FALSE,
     status |-> "ok", value |-> NoValue, reqs |-> <<>>]

Min(a, b) == IF a < b THEN a ELSE b
Max(a, b) == IF a > b THEN a ELSE b

(***************************************************************************)
(* String literals of the source.                                          *)
(***************************************************************************)
STR_slash == <<"/">>
STR_objects == <<"o", "b", "j", "e", "c", "t", "s">>
STR_dotgit == <<".", "g", "i", "t", "/">>
STR_refs_heads == <<"r", "e", "f", "s", "/", "h", "e", "a", "d", "s", "/">>

(***************************************************************************)
(* The character order of the store's key listing (UTF-8 binary order,    *)
(* restricted to the characters the paths of the model use).               *)
(***************************************************************************)
CharOrder ==
    <<"-", ".", "/", "0", "1", "2", "3", "4", "5", "6", "7", "8", "9",
      "a", "b", "c", "d", "e", "f", "g", "h", "i", "j", "k", "l", "m",
      "n", "o", "p", "q", "r", "s", "t", "u", "v", "w", "x", "y", "z">>

Ord(c) == CHOOSE i \in 1..Len(CharOrder) : CharOrder[i] = c

\* [0-9a-f]
HexChars == {"0", "1", "2", "3", "4", "5", "6", "7", "8", "9", "a", "b", "c", "d", "e", "f"}

(***************************************************************************)
(* String.prototype methods the source uses, with JavaScript's 0-based    *)
(* indices.                                                                *)
(***************************************************************************)
\* s.slice(b, e): negative indices count from the end, both are clamped
slice(s, b, e) ==
    LET n == Len(s)
        from == IF b < 0 THEN Max(n + b, 0) ELSE Min(b, n)
        to == IF e < 0 THEN Max(n + e, 0) ELSE Min(e, n)
    IN SubSeq(s, from + 1, to)

\* s.slice(b)
sliceFrom(s, b) == slice(s, b, Len(s))

startsWith(s, pre) == Len(pre) <= Len(s) /\ SubSeq(s, 1, Len(pre)) = pre

endsWith(s, suf) == Len(suf) <= Len(s) /\ SubSeq(s, Len(s) - Len(suf) + 1, Len(s)) = suf

\* s.indexOf(sub): the first 0-based position of sub in s, -1 when there is none
indexOf(s, sub) ==
    LET hits == {i \in 0..(Len(s) - Len(sub)) : SubSeq(s, i + 1, i + Len(sub)) = sub}
    IN IF hits = {} THEN -1 ELSE CHOOSE i \in hits : \A j \in hits : i <= j

includes(s, sub) == indexOf(s, sub) >= 0

(***************************************************************************)
(* SHA_MATCHER:                                                            *)
(*   ([0-9a-f]{4,40}-[0-9a-f]{4,40}-[0-9a-f]{4,40}-[0-9a-f]{4,40}-)         *)
(*   [0-9a-f]{4,40}                                                        *)
(* RegExp.exec finds the leftmost match; every group is greedy.  A group   *)
(* that must be followed by "-" can only be the whole run of hex           *)
(* characters at its place, so it matches iff that run has 4..40           *)
(* characters and a "-" follows; the last group takes up to 40 characters  *)
(* of its run.                                                             *)
(***************************************************************************)
MinHex == 4
MaxHex == 40
DashGroups == 4

RECURSIVE HexRun(_, _)
\* the number of consecutive hex characters of s from the 1-based position i
HexRun(s, i) ==
    IF i > Len(s) \/ s[i] \notin HexChars THEN 0 ELSE 1 + HexRun(s, i + 1)

RECURSIVE MatchGroups(_, _, _)
\* the 1-based position after a match of k "-"-terminated groups and the last
\* group starting at i; 0 when there is no match at i
MatchGroups(s, i, k) ==
    LET r == HexRun(s, i)
    IN IF k = 0
       THEN IF r >= MinHex THEN i + Min(r, MaxHex) ELSE 0
       ELSE IF r >= MinHex /\ r <= MaxHex /\ i + r <= Len(s) /\ s[i + r] = "-"
            THEN MatchGroups(s, i + r + 1, k - 1)
            ELSE 0

\* SHA_MATCHER.exec(s): found, and found_sha[0], the whole matched text
SHA_MATCHER_exec(s) ==
    LET starts == {i \in 1..Len(s) : MatchGroups(s, i, DashGroups) > 0}
    IN IF starts = {}
       THEN [found |-> FALSE, index |-> -1, text |-> <<>>]
       ELSE LET i == CHOOSE x \in starts : \A y \in starts : x <= y
            IN [found |-> TRUE, index |-> i - 1,
                text |-> SubSeq(s, i, MatchGroups(s, i, DashGroups) - 1)]

(***************************************************************************)
(* normalizePath                                                           *)
(***************************************************************************)
normalizePath(filepath) ==
    LET p == IF startsWith(filepath, STR_slash) THEN sliceFrom(filepath, 1) ELSE filepath
        found_sha == SHA_MATCHER_exec(p)
    IN IF found_sha.found /\ ~includes(p, STR_objects)
       THEN LET start == slice(p, 0, indexOf(p, STR_dotgit) + 5)
                sha == found_sha.text
            IN start \o STR_refs_heads \o sha
       ELSE p

(***************************************************************************)
(* The paths callers pass.                                                 *)
(***************************************************************************)
SHA_SCENARIO ==
    <<"1", "2", "3", "4", "-", "5", "6", "7", "8", "-", "9", "a", "b", "c", "-", "d", "e", "f", "0", "-", "1", "2", "3", "4", "5", "6", "7", "8", "9", "0", "a", "b">>
SHA_SHORT ==
    <<"1", "1", "1", "1", "-", "2", "2", "2", "2", "-", "3", "3", "3", "3", "-", "4", "4", "4", "4", "-", "5", "5", "5", "5">>

P_a == <<"a">>
P_a_slash == <<"a", "/">>
P_a_x == <<"a", "/", "x">>
P_slash_a_x == <<"/", "a", "/", "x">>
P_a_x_z == <<"a", "/", "x", "/", "z">>
P_a_y_z == <<"a", "/", "y", "/", "z">>
\* "refs/heads/1234-5678-9abc-def0-1234567890ab"
P_ref == STR_refs_heads \o SHA_SCENARIO
\* "r.git/1111-2222-3333-4444-5555", with and without a trailing "/"
P_repo_sha == <<"r">> \o STR_dotgit \o SHA_SHORT
P_repo_sha_slash == P_repo_sha \o STR_slash

FilePaths == {P_a_x, P_slash_a_x, P_ref, P_repo_sha}
DirPaths == {P_a, P_a_slash, P_a_x, P_a_x_z, P_a_y_z}
FaultPaths == {P_a_x, P_a_slash, P_repo_sha, P_repo_sha_slash}
AllPaths == FilePaths \cup DirPaths \cup FaultPaths

\* this.normalizePath of every path of the model, computed once
NormalizedPath == [filepath \in AllPaths |-> normalizePath(filepath)]

this_normalizePath(filepath) ==
    IF filepath \in AllPaths THEN NormalizedPath[filepath] ELSE normalizePath(filepath)

(***************************************************************************)
(* encode / decode of isomorphic-textencoder: UTF-8.  A text is a sequence *)
(* of code points, its encoding a sequence of bytes.                       *)
(***************************************************************************)
ReplacementChar == 65533

encodeChar(cp) ==
    IF cp < 128 THEN <<cp>>
    ELSE IF cp < 2048 THEN <<192 + (cp \div 64), 128 + (cp % 64)>>
    ELSE <<224 + (cp \div 4096), 128 + ((cp \div 64) % 64), 128 + (cp % 64)>>

RECURSIVE encode(_)
encode(text) ==
    IF text = <<>> THEN <<>> ELSE encodeChar(Head(text)) \o encode(Tail(text))

IsCont(bytes, i) == i <= Len(bytes) /\ bytes[i] >= 128 /\ bytes[i] < 192

RECURSIVE decodeFrom(_, _)
decodeFrom(bytes, i) ==
    IF i > Len(bytes) THEN <<>>
    ELSE LET b == bytes[i]
         IN IF b < 128 THEN <<b>> \o decodeFrom(bytes, i + 1)
            ELSE IF b >= 194 /\ b < 224 /\ IsCont(bytes, i + 1)
                 THEN <<(b - 192) * 64 + (bytes[i + 1] - 128)>> \o decodeFrom(bytes, i + 2)
            ELSE IF b >= 224 /\ b < 240 /\ IsCont(bytes, i + 1) /\ IsCont(bytes, i + 2)
                 THEN <<(b - 224) * 4096 + (bytes[i + 1] - 128) * 64 + (bytes[i + 2] - 128)>>
                          \o decodeFrom(bytes, i + 3)
            ELSE <<ReplacementChar>> \o decodeFrom(bytes, i + 1)

decode(bytes) == decodeFrom(bytes, 1)

\* streamToUint8Array: Buffer.concat of the chunks of the body
streamToUint8Array(stream) == stream

(***************************************************************************)
(* The object store (the S3 client of the backend).  A call either fails   *)
(* (fault: the request did not get through, or the store refused it) or    *)
(* is applied to the bucket.                                               *)
(***************************************************************************)
Present(st) == DOMAIN st

RECURSIVE KeyLess(_, _)
\* a < b in the lexicographic order of the listing
KeyLess(a, b) ==
    IF b = <<>> THEN FALSE
    ELSE IF a = <<>> THEN TRUE
    ELSE IF Head(a) = Head(b) THEN KeyLess(Tail(a), Tail(b))
    ELSE Ord(Head(a)) < Ord(Head(b))

RECURSIVE Sorted(_)
\* the keys of S in ascending order
Sorted(S) ==
    IF S = {} THEN <<>>
    ELSE LET m == CHOOSE x \in S : \A y \in S \ {x} : KeyLess(x, y)
         IN <<m>> \o Sorted(S \ {m})

\* a store that answers a read of an absent key with an empty body
getObject_emptyWhenAbsent(st, Key, fault) ==
    IF fault
    THEN [ok |-> FALSE]
    ELSE [ok |-> TRUE, Body |-> IF Key \in Present(st) THEN st[Key] ELSE <<>>]

getObject(st, Key, fault) ==
    IF fault \/ Key \notin Present(st)
    THEN [ok |-> FALSE]
    ELSE [ok |-> TRUE, Body |-> st[Key]]

\* a store that appends a put to what the key holds
putObject_append(st, Key, Body, fault) ==
    IF fault
    THEN [ok |-> FALSE, store |-> st]
    ELSE [ok |-> TRUE,
          store |-> [k \in Present(st) \cup {Key} |->
                        IF k # Key THEN st[k]
                        ELSE IF Key \in Present(st) THEN st[Key] \o Body ELSE Body]]

putObject(st, Key, Body, fault) ==
    IF fault
    THEN [ok |-> FALSE, store |-> st]
    ELSE [ok |-> TRUE, store |-> [k \in Present(st) \cup {Key} |-> IF k = Key THEN Body ELSE st[k]]]

\* a store that deletes every key that starts with the one given
deleteObject_prefix(st, Key, fault) ==
    IF fault
    THEN [ok |-> FALSE, store |-> st]
    ELSE [ok |-> TRUE, store |-> [k \in {x \in Present(st) : ~startsWith(x, Key)} |-> st[k]]]

\* deleting a key that is absent succeeds
deleteObject(st, Key, fault) ==
    IF fault
    THEN [ok |-> FALSE, store |-> st]
    ELSE [ok |-> TRUE, store |-> [k \in Present(st) \ {Key} |-> st[k]]]

headObject(st, Key, fault) ==
    IF fault \/ Key \notin Present(st)
    THEN [ok |-> FALSE]
    ELSE [ok |-> TRUE, ContentLength |-> Len(st[Key])]

\* the key cut after the first Delimiter that follows the Prefix
CommonPrefixOf(Key, Prefix, Delimiter) ==
    SubSeq(Key, 1, Len(Prefix) + indexOf(sliceFrom(Key, Len(Prefix)), Delimiter) + Len(Delimiter))

\* the most keys and common prefixes the store puts in one answer of a listing
\* (the store's own limit is 1000)
MaxKeys == 2

RECURSIVE FirstKeys(_, _)
\* the n lowest keys of S
FirstKeys(S, n) ==
    IF S = {} \/ n = 0 THEN {}
    ELSE LET m == CHOOSE x \in S : \A y \in S \ {x} : KeyLess(x, y)
         IN {m} \cup FirstKeys(S \ {m}, n - 1)

\* one answer of the store: the first MaxKeys entries, keys and common
\* prefixes counted alike, and whether more are left
listObjects(st, Delimiter, Prefix, fault) ==
    IF fault
    THEN [ok |-> FALSE]
    ELSE LET under == {k \in Present(st) : startsWith(k, Prefix)}
             grouped == {k \in under : includes(sliceFrom(k, Len(Prefix)), Delimiter)}
             prefixes == {CommonPrefixOf(k, Prefix, Delimiter) : k \in grouped}
             entries == (under \ grouped) \cup prefixes
             page == FirstKeys(entries, MaxKeys)
         IN [ok |-> TRUE,
             Contents |-> Sorted(page \ prefixes),
             CommonPrefixes |-> Sorted(page \cap prefixes),
             IsTruncated |-> page # entries]

Req(call, key) == [call |-> call, key |-> key]

(***************************************************************************)
(* The operations of S3PromisifiedFileSystem.  Each takes the bucket, the  *)
(* arguments of the call and whether its store request fails, and gives    *)
(* the bucket afterwards, how the call ended (status: "ok"; "ENOENT", an   *)
(* error with code ENOENT; "RAW", the store's own error, not caught), the  *)
(* value returned and the store requests issued.                           *)
(***************************************************************************)
Outcome(st, status, value, reqs) ==
    [store |-> st, status |-> status, value |-> value, reqs |-> reqs]

String(chars) == [type |-> "string", data |-> chars]
Uint8Array(bytes) == [type |-> "bytes", data |-> bytes]

\* the first version of the class: the key is the path as given
readFile_rawKey(st, filepath, encoding, fault) ==
    LET data == getObject(st, filepath, fault)
    IN IF data.ok
       THEN LET array == streamToUint8Array(data.Body)
            IN Outcome(st, "ok",
                       IF encoding = "utf8" THEN String(decode(array)) ELSE Uint8Array(array),
                       <<Req("getObject", filepath)>>)
       ELSE Outcome(st, "ENOENT", NoValue, <<Req("getObject", filepath)>>)

readFile(st, filepath, encoding, fault) ==
    LET path == this_normalizePath(filepath)
        data == getObject(st, path, fault)
    IN IF data.ok
       THEN LET array == streamToUint8Array(data.Body)
            IN Outcome(st, "ok",
                       IF encoding = "utf8" THEN String(decode(array)) ELSE Uint8Array(array),
                       <<Req("getObject", path)>>)
       ELSE Outcome(st, "ENOENT", NoValue, <<Req("getObject", path)>>)

\* a writeFile that sends its put again when the store refuses it
writeFile_retry(st, filepath, input, optsEncoding, fault) ==
    LET path == this_normalizePath(filepath)
        encoding == IF optsEncoding = "none" THEN "utf8" ELSE optsEncoding
    IN IF input.type = "string" /\ encoding # "utf8"
       THEN Outcome(st, "ENOENT", NoValue, <<>>)
       ELSE LET data == IF input.type = "string" THEN encode(input.data) ELSE input.data
                put == putObject(st, path, data, fault)
            IN Outcome(put.store, IF put.ok THEN "ok" ELSE "ENOENT", NoValue,
                       IF put.ok THEN <<Req("putObject", path)>>
                       ELSE <<Req("putObject", path), Req("putObject", path)>>)

\* opts.encoding: "utf8", "none" (left out, so "utf8" by default) or another name
writeFile(st, filepath, input, optsEncoding, fault) ==
    LET path == this_normalizePath(filepath)
        encoding == IF optsEncoding = "none" THEN "utf8" ELSE optsEncoding
    IN IF input.type = "string" /\ encoding # "utf8"
       THEN Outcome(st, "ENOENT", NoValue, <<>>)
       ELSE LET data == IF input.type = "string" THEN encode(input.data) ELSE input.data
                put == putObject(st, path, data, fault)
            IN Outcome(put.store, IF put.ok THEN "ok" ELSE "ENOENT", NoValue,
                       <<Req("putObject", path)>>)

unlink(st, filepath, fault) ==
    LET del == deleteObject(st, filepath, fault)
    IN Outcome(del.store, IF del.ok THEN "ok" ELSE "ENOENT", NoValue,
               <<Req("deleteObject", filepath)>>)

RECURSIVE subfoldersOf(_, _)
\* result.CommonPrefixes.forEach: every prefix gives a name
subfoldersOf(CommonPrefixes, path) ==
    IF CommonPrefixes = <<>> THEN <<>>
    ELSE LET Prefix == Head(CommonPrefixes)
         IN <<slice(Prefix, Len(path), Len(Prefix) - 1)>>
                \o subfoldersOf(Tail(CommonPrefixes), path)

RECURSIVE filesOf(_, _)
\* result.Contents.forEach: a key gives a name unless nothing is left of it
filesOf(Contents, path) ==
    IF Contents = <<>> THEN <<>>
    ELSE LET Key == Head(Contents)
             file == slice(Key, Len(path),
                           IF endsWith(Key, STR_slash) THEN Len(Key) - 1 ELSE Len(Key))
         IN (IF Len(file) > 0 THEN <<file>> ELSE <<>>) \o filesOf(Tail(Contents), path)

readdir(st, filepath, fault) ==
    LET path == this_normalizePath(filepath)
        result == listObjects(st, STR_slash, path, fault)
    IN IF result.ok
       THEN Outcome(st, "ok",
                    subfoldersOf(result.CommonPrefixes, path) \o filesOf(result.Contents, path),
                    <<Req("listObjects", path)>>)
       ELSE Outcome(st, "ENOENT", NoValue, <<Req("listObjects", path)>>)

mkdir(st, filepath, fault) ==
    LET path == this_normalizePath(filepath)
        Key == IF endsWith(path, STR_slash) THEN path ELSE path \o STR_slash
        put == putObject(st, Key, <<>>, fault)
    IN Outcome(put.store, IF put.ok THEN "ok" ELSE "RAW", NoValue, <<Req("putObject", Key)>>)

rmdir(st, filepath, fault) ==
    LET path == this_normalizePath(filepath)
        Key == IF endsWith(filepath, STR_slash) THEN path ELSE path \o STR_slash
        del == deleteObject(st, Key, fault)
    IN Outcome(del.store, IF del.ok THEN "ok" ELSE "RAW", NoValue, <<Req("deleteObject", Key)>>)

StatLike(type, size) == [type |-> type, mode |-> 0, size |-> size, ino |-> "0"]

\* no test of the trailing "/": every path is probed
stat_alwaysProbe(st, filepath, fault) ==
    LET result == headObject(st, filepath, fault)
    IN IF result.ok
       THEN Outcome(st, "ok", StatLike("file", result.ContentLength),
                    <<Req("headObject", filepath)>>)
       ELSE Outcome(st, "ENOENT", NoValue, <<Req("headObject", filepath)>>)

stat(st, filepath, fault) ==
    IF endsWith(filepath, STR_slash)
    THEN Outcome(st, "ok", StatLike("dir", 0), <<>>)
    ELSE LET result == headObject(st, filepath, fault)
         IN IF result.ok
            THEN Outcome(st, "ok", StatLike("file", result.ContentLength),
                         <<Req("headObject", filepath)>>)
            ELSE Outcome(st, "ENOENT", NoValue, <<Req("headObject", filepath)>>)

lstat(st, filepath, fault) ==
    IF endsWith(filepath, STR_slash)
    THEN Outcome(st, "ok", StatLike("dir", 0), <<>>)
    ELSE LET result == headObject(st, filepath, fault)
         IN IF result.ok
            THEN Outcome(st, "ok", StatLike("file", result.ContentLength),
                         <<Req("headObject", filepath)>>)
            ELSE Outcome(st, "RAW", NoValue, <<Req("headObject", filepath)>>)

(***************************************************************************)
(* The calls of the model: the paths, payloads and encodings a caller      *)
(* passes.                                                                 *)
(***************************************************************************)
\* "aé" (two characters, three bytes), and one byte that is no UTF-8 text
TextInput == String(<<97, 233>>)
BytesInput == Uint8Array(<<255>>)

\* the most objects the bucket holds under file traffic, under directory traffic
\* and with a store that may refuse
MaxFileObjects == 2
MaxDirObjects == 3
MaxFaultObjects == 2

\* the callers of a run: the paths, payloads and encodings they pass, whether
\* a store request may fail, and the most objects the bucket holds
FileCalls ==
    [paths |-> FilePaths,
     inputs |-> {TextInput, BytesInput},
     readEncodings |-> {"utf8", "none"},
     writeEncodings |-> {"utf8", "none", "latin1"},
     faults |-> {FALSE},
     maxObjects |-> MaxFileObjects]

DirCalls ==
    [paths |-> DirPaths,
     inputs |-> {BytesInput},
     readEncodings |-> {"utf8", "none"},
     writeEncodings |-> {"none"},
     faults |-> {FALSE},
     maxObjects |-> MaxDirObjects]

FaultCalls ==
    [paths |-> FaultPaths,
     inputs |-> {TextInput},
     readEncodings |-> {"none"},
     writeEncodings |-> {"none", "latin1"},
     faults |-> BOOLEAN,
     maxObjects |-> MaxFaultObjects]

Mutating == {"writeFile", "unlink", "mkdir", "rmdir"}

Call(op, filepath, input, encoding, fault, r) ==
    [op |-> op, path |-> filepath, input |-> input, encoding |-> encoding, fault |-> fault,
     status |-> r.status, value |-> r.value, reqs |-> r.reqs]

\* the keys the call asked the store to put or delete
Touched(r) ==
    {r.reqs[i].key : i \in {j \in DOMAIN r.reqs : r.reqs[j].call \in {"putObject", "deleteObject"}}}

Puts(r) == {i \in DOMAIN r.reqs : r.reqs[i].call = "putObject"}

\* written: a completed writeFile(p, d) stays until a later call writes or
\* deletes at p, or asks the store to put or delete the key it was put under
WrittenAfter(op, filepath, input, r) ==
    LET kept == {q \in DOMAIN written :
                    /\ ~(op \in Mutating /\ q = filepath)
                    /\ written[q].key \notin Touched(r)}
        new == IF op = "writeFile" /\ r.status = "ok" THEN {filepath} ELSE {}
    IN [q \in kept \cup new |->
           IF q \in new THEN [input |-> input, key |-> r.reqs[1].key] ELSE written[q]]

\* unlinked: writeFile(p, d), then a completed unlink(p), and since then no
\* put at all and no writing or deleting call at p
UnlinkedAfter(op, filepath, r) ==
    LET fresh == IF op = "unlink" /\ r.status = "ok" /\ filepath \in DOMAIN written
                 THEN {filepath} ELSE {}
        kept == IF Puts(r) # {} THEN {}
                ELSE unlinked \ (IF op \in Mutating THEN {filepath} ELSE {})
    IN kept \cup fresh

Complete(W, op, filepath, input, encoding, fault, r) ==
    /\ Cardinality(DOMAIN r.store) <= W.maxObjects
    /\ store' = r.store
    /\ last' = Call(op, filepath, input, encoding, fault, r)
    /\ written' = WrittenAfter(op, filepath, input, r)
    /\ unlinked' = UnlinkedAfter(op, filepath, r)
    /\ UNCHANGED <<nin, nout, calls, applied, proxyVars>>

ReadFile(W) ==
    \E p \in W.paths, e \in W.readEncodings, f \in W.faults :
        Complete(W, "readFile", p, NoValue, e, f, readFile(store, p, e, f))

WriteFile(W) ==
    \E p \in W.paths, d \in W.inputs, e \in W.writeEncodings, f \in W.faults :
        Complete(W, "writeFile", p, d, e, f, writeFile(store, p, d, e, f))

Unlink(W) ==
    \E p \in W.paths, f \in W.faults :
        Complete(W, "unlink", p, NoValue, "none", f, unlink(store, p, f))

Readdir(W) ==
    \E p \in W.paths, f \in W.faults :
        Complete(W, "readdir", p, NoValue, "none", f, readdir(store, p, f))

Mkdir(W) ==
    \E p \in W.paths, f \in W.faults :
        Complete(W, "mkdir", p, NoValue, "none", f, mkdir(store, p, f))

Rmdir(W) ==
    \E p \in W.paths, f \in W.faults :
        Complete(W, "rmdir", p, NoValue, "none", f, rmdir(store, p, f))

Stat(W) ==
    \E p \in W.paths, f \in W.faults :
        Complete(W, "stat", p, NoValue, "none", f, stat(store, p, f))

Lstat(W) ==
    \E p \in W.paths, f \in W.faults :
        Complete(W, "lstat", p, NoValue, "none", f, lstat(store, p, f))

EmptyStore == [k \in {} |-> <<>>]

\* a ComponentArray over an empty ArrayProperty (of references, or of values)
NewTarget(reference) ==
    [property |-> <<>>, reference |-> reference, lastCalledMethod |-> ""]

\* a JavaScript number: NaN, or a value counted in tenths
Num(tenths) == [nan |-> FALSE, tenths |-> tenths]
NaN == [nan |-> TRUE, tenths |-> 0]

\* no trap has run yet
NoTrap ==
    [trap |-> "none", key |-> "", number |-> Num(0), asterisk |-> FALSE, value |-> "",
     result |-> "none"]

\* the independent callers of one backend instance
Callers == {1, 2}

\* a caller that has not called yet
IdleCall ==
    [pc |-> "idle", n |-> 0, op |-> "none", path |-> <<>>, input |-> NoValue,
     encoding |-> "none", status |-> "ok", value |-> NoValue, seen |-> {}, raced |-> {}]

Init ==
    /\ store = EmptyStore
    /\ last = NoCall
    /\ written = [q \in {} |-> NoValue]
    /\ unlinked = {}
    /\ nin = <<>>
    /\ nout = <<>>
    /\ calls = [c \in Callers |-> IdleCall]
    /\ applied = 0
    /\ target = NewTarget(FALSE)
    /\ running = <<>>
    /\ trapped = NoTrap

Next ==
    \/ ReadFile(FileCalls)
    \/ WriteFile(FileCalls)
    \/ Unlink(FileCalls)
    \/ Readdir(FileCalls)
    \/ Mkdir(FileCalls)
    \/ Rmdir(FileCalls)
    \/ Stat(FileCalls)
    \/ Lstat(FileCalls)

\* file traffic: plain, aliased and hash-shaped file paths
Spec == Init /\ [][Next]_vars

NextDir ==
    \/ ReadFile(DirCalls)
    \/ WriteFile(DirCalls)
    \/ Unlink(DirCalls)
    \/ Readdir(DirCalls)
    \/ Mkdir(DirCalls)
    \/ Rmdir(DirCalls)
    \/ Stat(DirCalls)
    \/ Lstat(DirCalls)

\* directory traffic: a directory, its marker and the keys under it
SpecDir == Init /\ [][NextDir]_vars

NextFault ==
    \/ ReadFile(FaultCalls)
    \/ WriteFile(FaultCalls)
    \/ Unlink(FaultCalls)
    \/ Readdir(FaultCalls)
    \/ Mkdir(FaultCalls)
    \/ Rmdir(FaultCalls)
    \/ Stat(FaultCalls)
    \/ Lstat(FaultCalls)

\* a store that may refuse any request: a file, and a hash-shaped directory
\* given with and without its trailing "/"
SpecFault == Init /\ [][NextFault]_vars

(***************************************************************************)
(* Concurrent callers.  The methods are async and hold no state of their   *)
(* own (the instance has only the client and the bucket name): a call runs *)
(* to its one await, where the store request is in flight; the store       *)
(* applies the requests one at a time, in any order; the method resumes    *)
(* with the answer and returns.  Calls of other callers run in between.    *)
(***************************************************************************)
\* the calls the callers make, all told
MaxRaceCalls == 3

\* the calls made so far
CallsMade == calls[1].n + calls[2].n

RaceCalls ==
    [paths |-> {P_a_x, P_slash_a_x},
     inputs |-> {TextInput, BytesInput},
     readEncodings |-> {"utf8", "none"},
     writeEncodings |-> {"none"},
     faults |-> {FALSE},
     maxObjects |-> MaxFileObjects]

\* what the store holds at a key
ContentAt(st, Key) ==
    IF Key \in DOMAIN st THEN [present |-> TRUE, bytes |-> st[Key]] ELSE [present |-> FALSE]

\* what the store holds at a key once a payload was put there whole
Payload(input) ==
    [present |-> TRUE, bytes |-> IF input.type = "string" THEN encode(input.data) ELSE input.data]

InFlight(c) == calls[c].pc \in {"sent", "answered"}

\* the callers other than c with a call in progress
Others(c) == {d \in Callers \ {c} : InFlight(d)}

\* the method runs up to its await: the request is on its way to the store
Issue(W, c, op, filepath, input, encoding) ==
    /\ calls[c].pc \in {"idle", "done"}
    /\ CallsMade < MaxRaceCalls
    /\ calls' = [d \in Callers |->
           IF d = c
           THEN [pc |-> "sent", n |-> calls[c].n + 1, op |-> op, path |-> filepath,
                 input |-> input, encoding |-> encoding, status |-> "ok", value |-> NoValue,
                 seen |-> {ContentAt(store, this_normalizePath(filepath))},
                 raced |-> Others(c)]
           ELSE IF d \in Others(c)
                THEN [calls[d] EXCEPT !.raced = @ \cup {c}]
                ELSE calls[d]]
    /\ UNCHANGED <<store, last, written, unlinked, nin, nout, applied, proxyVars>>

IssueRead(W) ==
    \E c \in Callers, p \in W.paths, e \in W.readEncodings :
        Issue(W, c, "readFile", p, NoValue, e)

IssueWrite(W) ==
    \E c \in Callers, p \in W.paths, d \in W.inputs, e \in W.writeEncodings :
        Issue(W, c, "writeFile", p, d, e)

\* the store applies the request of caller c and answers it
Apply(W) ==
    \E c \in Callers, f \in W.faults :
        LET call == calls[c]
            r == IF call.op = "readFile"
                 THEN readFile(store, call.path, call.encoding, f)
                 ELSE writeFile(store, call.path, call.input, call.encoding, f)
        IN /\ call.pc = "sent"
           /\ store' = r.store
           /\ applied' = c
           /\ calls' = [d \in Callers |->
                  IF d = c
                  THEN [call EXCEPT !.pc = "answered", !.status = r.status, !.value = r.value]
                  ELSE IF /\ calls[d].pc = "sent"
                          /\ call.op = "writeFile"
                          /\ r.status = "ok"
                          /\ this_normalizePath(calls[d].path) = this_normalizePath(call.path)
                       THEN [calls[d] EXCEPT !.seen = @ \cup {Payload(call.input)}]
                       ELSE calls[d]]
           /\ UNCHANGED <<last, written, unlinked, nin, nout, proxyVars>>

\* the method resumes after its await and hands the result to its caller
Return(W) ==
    \E c \in Callers :
        LET call == calls[c]
        IN /\ call.pc = "answered"
           /\ calls' = [calls EXCEPT ![c].pc = "done"]
           /\ UNCHANGED <<store, last, written, unlinked, nin, nout, applied, proxyVars>>

NextRace ==
    \/ IssueRead(RaceCalls)
    \/ IssueWrite(RaceCalls)
    \/ Apply(RaceCalls)
    \/ Return(RaceCalls)

\* two callers, each reading and writing one file under its two spellings
SpecRace == Init /\ [][NextRace]_vars

(***************************************************************************)
(* normalizePath on its own: a path is drawn and normalized twice.         *)
(***************************************************************************)
\* 41 hex characters: one more than a group of the pattern takes
HEX_41 ==
    <<"0", "0", "0", "0", "0", "0", "0", "0", "0", "0", "0", "0", "0", "0", "0", "0", "0", "0", "0", "0", "0", "0", "0", "0", "0", "0", "0", "0", "0", "0", "0", "0", "0", "0", "0", "0", "0", "0", "0", "0", "0">>

NormLeads == {<<>>, STR_slash, STR_slash \o STR_slash}
NormRoots == {<<>>, <<"r">> \o STR_dotgit, <<"r">> \o STR_dotgit \o STR_objects \o STR_slash,
              <<"m", "y">> \o STR_objects \o <<"2">> \o STR_slash}
NormBodies == {SHA_SHORT, STR_refs_heads \o SHA_SCENARIO, HEX_41 \o <<"-">> \o SHA_SHORT,
               Tail(SHA_SHORT), <<"x">>}
NormTails == {<<>>, <<"/", "x">>}

NormPaths == {a \o b \o c \o d : a \in NormLeads, b \in NormRoots, c \in NormBodies, d \in NormTails}

InitNorm ==
    /\ store = EmptyStore
    /\ last = NoCall
    /\ written = [q \in {} |-> NoValue]
    /\ unlinked = {}
    /\ nin \in NormPaths
    /\ nout = <<>>
    /\ calls = [c \in Callers |-> IdleCall]
    /\ applied = 0
    /\ target = NewTarget(FALSE)
    /\ running = <<>>
    /\ trapped = NoTrap

Normalize ==
    /\ nout = <<>>
    /\ nout' = <<normalizePath(nin)>>
    /\ UNCHANGED <<store, last, written, unlinked, nin, calls, applied, proxyVars>>

NormalizeAgain ==
    /\ Len(nout) = 1
    /\ nout' = Append(nout, normalizePath(nout[1]))
    /\ UNCHANGED <<store, last, written, unlinked, nin, calls, applied, proxyVars>>

NextNorm == Normalize \/ NormalizeAgain

SpecNorm == InitNorm /\ [][NextNorm]_vars

(***************************************************************************)
(* The array proxy (arrayProxyHandler.ts): setLength, the set trap and the *)
(* wrapper the get trap puts around the methods of the ComponentArray.     *)
(* The ArrayProperty is the sequence of its elements.                      *)
(***************************************************************************)
\* the longest array, the deepest nesting of proxied methods
MaxLength == 3
MaxDepth == 2

\* ArrayProperty: getLength, clear, removeRange(offset, count),
\* insertRange(offset, items), set(index, value); indices count from 0
getLength(property) == Len(property)
clear(property) == <<>>
removeRange(property, offset, count) ==
    SubSeq(property, 1, offset) \o SubSeq(property, offset + count + 1, Len(property))
insertRange(property, offset, items) ==
    SubSeq(property, 1, offset) \o items \o SubSeq(property, offset + 1, Len(property))
set(property, index, value) == [property EXCEPT ![index + 1] = value]

\* Math.floor of a number that is not NaN
Math_floor(number) == number.tenths \div 10

\* the element setLength fills with: "" in an array of references, a fresh
\* property of the array's typeid otherwise
EmptyItem(reference) == IF reference THEN "" ELSE "created"

\* the loop of lines 42-48
itemProps(reference, currentLength, newLength) ==
    [i \in 1..(newLength - currentLength) |-> EmptyItem(reference)]

\* a setLength that shortens the array at its front
setLength_front(t, length) ==
    LET newLength == Math_floor(length)
    IN IF length.nan \/ newLength < 0
       THEN [target |-> t, result |-> "RangeError"]
       ELSE LET property == t.property
                currentLength == getLength(property)
            IN [target |->
                   [t EXCEPT !.property =
                       IF newLength = 0 THEN clear(property)
                       ELSE IF currentLength > newLength
                            THEN removeRange(property, 0, currentLength - newLength)
                       ELSE IF currentLength < newLength
                            THEN insertRange(property, currentLength,
                                             itemProps(t.reference, currentLength, newLength))
                       ELSE property],
                result |-> "true"]

\* setLength(target, length): the target afterwards, and "true" or the
\* RangeError thrown
setLength(t, length) ==
    LET newLength == Math_floor(length)
    IN IF length.nan \/ newLength < 0
       THEN [target |-> t, result |-> "RangeError"]
       ELSE LET property == t.property
                currentLength == getLength(property)
            IN [target |->
                   [t EXCEPT !.property =
                       IF newLength = 0 THEN clear(property)
                       ELSE IF currentLength > newLength
                            THEN removeRange(property, newLength, currentLength - newLength)
                       ELSE IF currentLength < newLength
                            THEN insertRange(property, currentLength,
                                             itemProps(t.reference, currentLength, newLength))
                       ELSE property],
                result |-> "true"]

getTrapSpecialCases == {"copyWithin", "reverse", "swap"}
setTrapSpecialCases == getTrapSpecialCases \cup {"fill", "sort"}

\* the set trap with the key "length": setLength(target, Number(value))
set_length(t, length) == setLength(t, length)

\* the set trap with an index key (a whole number, "*" after it or not)
set_index(t, index, asteriskFound, value) ==
    IF index < 0
    THEN [target |-> t, result |-> "true"]
    ELSE LET insert == index >= getLength(t.property)
             grown == IF insert THEN setLength(t, Num((index + 1) * 10)).target ELSE t
             specialCases == t.lastCalledMethod \in setTrapSpecialCases
         IN IF t.reference /\ ~specialCases /\ ~asteriskFound /\ ~insert
            THEN [target |-> grown, result |-> "true"]
            ELSE IF asteriskFound /\ ~t.reference
            THEN [target |-> grown, result |-> "Error"]
            ELSE [target |-> [grown EXCEPT !.property = set(grown.property, index, value)],
                  result |-> "true"]

\* the numbers, indices, values and method names the callers of the proxy use
Lengths == {Num(n * 5) : n \in -3..(2 * MaxLength + 1)} \cup {NaN}
Indices == -1..(MaxLength - 1)
Values == {"v", "w"}
Methods == {"push", "reverse"}

Trapped(trap, key, number, asterisk, value, result) ==
    [trap |-> trap, key |-> key, number |-> number, asterisk |-> asterisk, value |-> value,
     result |-> result]

\* proxy.length = value
SetLength ==
    \E length \in Lengths :
        LET r == set_length(target, length)
        IN /\ getLength(r.target.property) <= MaxLength
           /\ target' = r.target
           /\ trapped' = Trapped("set", "length", length, FALSE, "", r.result)
           /\ UNCHANGED <<running, fsVars>>

\* proxy[index] = value
SetIndex ==
    \E index \in Indices, asteriskFound \in BOOLEAN, value \in Values :
        LET r == set_index(target, index, asteriskFound, value)
        IN /\ getLength(r.target.property) <= MaxLength
           /\ target' = r.target
           /\ trapped' = Trapped("set", "index", Num(index * 10), asteriskFound, value, r.result)
           /\ UNCHANGED <<running, fsVars>>

\* the function the get trap returns is called: lines 87-90, up to the call
\* of the method itself; a method that is executing may call another one
Invoke ==
    \E key \in Methods :
        /\ Len(running) < MaxDepth
        /\ target' = [target EXCEPT !.lastCalledMethod = key]
        /\ running' = Append(running, key)
        /\ trapped' = Trapped("get", key, Num(0), FALSE, "", "none")
        /\ UNCHANGED fsVars

\* the innermost method returns or throws: the finally block of lines 91-93
Finish ==
    \E result \in {"returned", "thrown"} :
        /\ running # <<>>
        /\ target' = [target EXCEPT !.lastCalledMethod = ""]
        /\ running' = SubSeq(running, 1, Len(running) - 1)
        /\ trapped' = Trapped("get", running[Len(running)], Num(0), FALSE, "", result)
        /\ UNCHANGED fsVars

InitProxy ==
    /\ store = EmptyStore
    /\ last = NoCall
    /\ written = [q \in {} |-> NoValue]
    /\ unlinked = {}
    /\ nin = <<>>
    /\ nout = <<>>
    /\ calls = [c \in Callers |-> IdleCall]
    /\ applied = 0
    /\ target \in {NewTarget(reference) : reference \in BOOLEAN}
    /\ running = <<>>
    /\ trapped = NoTrap

NextProxy == SetLength \/ SetIndex \/ Invoke \/ Finish

\* an array proxy, its elements set and its length changed from outside and
\* from inside its methods
SpecProxy == InitProxy /\ [][NextProxy]_vars

(***************************************************************************)
(* Properties                                                              *)
(***************************************************************************)
\* the bytes of a payload as the store holds it
PayloadBytes(input) == IF input.type = "string" THEN encode(input.data) ELSE input.data

\* readFile's encoding matches the payload: utf8 for text, none for bytes
MatchingEncoding(encoding, input) ==
    IF input.type = "string" THEN encoding = "utf8" ELSE encoding = "none"

\* the path after its one leading separator, as the normalizer matches it
Stripped(filepath) ==
    IF startsWith(filepath, STR_slash) THEN sliceFrom(filepath, 1) ELSE filepath

\* C1: a completed writeFile(p, d), p not ending in "/", then readFile(p) with
\* the matching encoding and a store that answers, no call having written or
\* deleted at p or at its key in between: readFile returns exactly d.
C1_WriteThenRead ==
    (/\ last.op = "readFile"
     /\ last.path \in DOMAIN written
     /\ ~endsWith(last.path, STR_slash)
     /\ ~last.fault
     /\ MatchingEncoding(last.encoding, written[last.path].input))
        => (last.status = "ok" /\ last.value = written[last.path].input)

\* the text written at the hash-shaped literal path is read back from it
C1_Witness ==
    /\ last.op = "readFile"
    /\ last.path = P_ref
    /\ P_ref \in DOMAIN written
    /\ written[P_ref].input = TextInput
    /\ last.encoding = "utf8"
    /\ last.status = "ok"
    /\ last.value = TextInput

\* C2: after writeFile(p, d), stat(p) succeeds with kind file and the size of
\* d, for every p, the paths the normalizer rewrites included.
C2_StatAfterWrite ==
    (/\ last.op = "stat"
     /\ last.path \in DOMAIN written
     /\ ~last.fault)
        => (/\ last.status = "ok"
            /\ last.value.type = "file"
            /\ last.value.size = Len(PayloadBytes(written[last.path].input)))

\* C3: writeFile(p, d), then unlink(p), then readFile(p) fails with NotFound,
\* for every p.
C3_ReadAfterUnlink ==
    (last.op = "readFile" /\ last.path \in unlinked) => last.status = "ENOENT"

\* C4: unlink(p) where the store holds no object for p (neither at p as given
\* nor at its normalized key) fails with NotFound and leaves the store as it is.
C4_UnlinkAbsent ==
    [][(/\ last'.op = "unlink"
        /\ last'.path \notin DOMAIN store
        /\ normalizePath(last'.path) \notin DOMAIN store)
           => (last'.status = "ENOENT" /\ store' = store)]_vars

\* C5: normalizing a normalized path changes nothing:
\* normalize(normalize(p)) = normalize(p) for every path p.
C5_NormalizeIdempotent ==
    Len(nout) = 2 => nout[2] = nout[1]

\* C6: a path that matches the hash pattern and has no "objects" in it is
\* stored under <root>refs/heads/<matched-text>, <root> ending in the ".git/"
\* marker: the part of the path up to and including that marker.
C6_RefKey ==
    (/\ last.op = "writeFile"
     /\ last.reqs # <<>>
     /\ SHA_MATCHER_exec(Stripped(last.path)).found
     /\ ~includes(Stripped(last.path), STR_objects))
        => LET p == Stripped(last.path)
               key == last.reqs[1].key
               sha == SHA_MATCHER_exec(p).text
           IN \E n \in 0..Len(key) :
                  LET root == SubSeq(key, 1, n)
                  IN /\ endsWith(root, STR_dotgit)
                     /\ key = root \o STR_refs_heads \o sha
                     /\ includes(p, STR_dotgit) => startsWith(p, root)

\* no name of the listing sorts before an earlier one
Ascending(names) ==
    \A i, j \in DOMAIN names : i < j => ~KeyLess(names[j], names[i])

\* C7: readdir returns the child names in ascending lexicographic order, files
\* and subdirectories merged; with exactly the keys a/x, a/y/z and a/ in the
\* store, readdir("a/") returns <<x, y>>.
C7_ReaddirOrdered ==
    (last.op = "readdir" /\ last.status = "ok")
        => /\ Ascending(last.value)
           /\ (DOMAIN store = {P_a_x, P_a_y_z, P_a_slash} /\ last.path = P_a_slash)
                  => last.value = <<<<"x">>, <<"y">>>>

\* C8: readdir returns no name twice.
C8_ReaddirNoDuplicates ==
    (last.op = "readdir" /\ last.status = "ok")
        => \A i, j \in DOMAIN last.value : last.value[i] = last.value[j] => i = j

\* C9: whether the path is given with or without a trailing "/", every name
\* readdir returns is non-empty, is not the delimiter and holds no "/".
C9_ReaddirNames ==
    (last.op = "readdir" /\ last.status = "ok")
        => \A i \in DOMAIN last.value :
               /\ last.value[i] # <<>>
               /\ last.value[i] # STR_slash
               /\ ~includes(last.value[i], STR_slash)

\* C10: stat and lstat of a path ending in "/" return kind directory and
\* issue no store request, whatever the store holds.
C10_DirStatSynthetic ==
    (last.op \in {"stat", "lstat"} /\ endsWith(last.path, STR_slash))
        => (last.status = "ok" /\ last.value.type = "dir" /\ last.reqs = <<>>)

\* stat("a/") after mkdir("a/"): the store holds the marker and nothing else
C10_Witness ==
    /\ last.op = "stat"
    /\ last.path = P_a_slash
    /\ DOMAIN store = {P_a_slash}
    /\ store[P_a_slash] = <<>>
    /\ last.status = "ok"
    /\ last.value.type = "dir"

\* the marker key of a directory path: its normalized path, closed by one "/"
MarkerOf(filepath) ==
    LET path == this_normalizePath(filepath)
    IN IF endsWith(path, STR_slash) THEN path ELSE path \o STR_slash

\* C11: mkdir(path) where the store already holds the marker of path (a second
\* mkdir, say) fails and leaves the store as it is; the marker is written only
\* when there is none.
C11_MkdirExisting ==
    [][(/\ last'.op = "mkdir"
        /\ ~last'.fault
        /\ MarkerOf(last'.path) \in DOMAIN store
        /\ store[MarkerOf(last'.path)] = <<>>)
           => (last'.status # "ok" /\ store' = store)]_vars

\* C12: rmdir(path) where the store holds no marker of path (a directory never
\* made, or a second rmdir) fails with NotFound and leaves the store as it is.
C12_RmdirAbsent ==
    [][(last'.op = "rmdir" /\ MarkerOf(last'.path) \notin DOMAIN store)
           => (last'.status = "ENOENT" /\ store' = store)]_vars

\* C13: writeFile of text with an encoding other than utf8 fails with an error
\* that is not the NotFound kind, and sends nothing to the store.
C13_EncodingError ==
    (/\ last.op = "writeFile"
     /\ last.input.type = "string"
     /\ last.encoding \notin {"utf8", "none"})
        => (last.status \notin {"ok", "ENOENT"} /\ last.reqs = <<>>)

\* C15: readdir(path) where the store holds neither the marker of path nor a
\* key under it fails with NotFound rather than returning the empty list.
C15_ReaddirAbsent ==
    (/\ last.op = "readdir"
     /\ ~last.fault
     /\ \A k \in DOMAIN store : ~startsWith(k, MarkerOf(last.path)))
        => last.status = "ENOENT"

\* C16: readFile(path) where the store holds no object at the key of path
\* fails with NotFound, whatever else the store holds, and leaves the store as
\* it is.
C16_ReadAbsent ==
    [][(last'.op = "readFile" /\ this_normalizePath(last'.path) \notin DOMAIN store)
           => (last'.status = "ENOENT" /\ last'.value = NoValue /\ store' = store)]_vars

\* readFile("/a/x") while the store holds other objects and none at a/x
C16_Witness ==
    /\ last.op = "readFile"
    /\ last.path = P_slash_a_x
    /\ P_a_x \notin DOMAIN store
    /\ DOMAIN store # {}
    /\ last.status = "ENOENT"

\* C18: every operation keys the store by the normalized path: the file
\* operations by normalize(p) itself, the directory operations by normalize(p)
\* or its marker; none by the path as given.
C18_SameKey ==
    \A i \in DOMAIN last.reqs :
        LET key == last.reqs[i].key
        IN IF last.op \in {"mkdir", "rmdir", "readdir"}
           THEN key \in {this_normalizePath(last.path), MarkerOf(last.path)}
           ELSE key = this_normalizePath(last.path)

\* the name of the child a key stands for: what follows the prefix, up to the
\* next "/"
ChildName(rest) ==
    IF includes(rest, STR_slash) THEN slice(rest, 0, indexOf(rest, STR_slash)) ELSE rest

\* the immediate children under a prefix that ends in "/"
ChildrenOf(st, prefix) ==
    {ChildName(sliceFrom(k, Len(prefix))) : k \in {x \in DOMAIN st : startsWith(x, prefix) /\ x # prefix}}

\* C20: readdir(prefix) returns every immediate child under the prefix, also
\* when the store answers the listing in more than one page.
C20_ReaddirComplete ==
    (/\ last.op = "readdir"
     /\ last.status = "ok"
     /\ endsWith(this_normalizePath(last.path), STR_slash))
        => \A name \in ChildrenOf(store, this_normalizePath(last.path)) :
               \E i \in DOMAIN last.value : last.value[i] = name

\* C14: a store call that fails reaches the caller as an error with code
\* ENOENT, whichever of the eight operations made it; no operation passes the
\* store's own error on.
C14_OnlyNotFound ==
    (last.reqs # <<>> /\ last.status # "ok") => last.status = "ENOENT"

\* C19: rmdir(p) deletes exactly the marker key mkdir(p) wrote, for p with or
\* without a trailing "/", rewritten by the normalizer or not: mkdir(p), then
\* rmdir(p), leaves the keys that were there before mkdir.
C19_RmdirUndoesMkdir ==
    [][(/\ last.op = "mkdir"
        /\ last.status = "ok"
        /\ last'.op = "rmdir"
        /\ last'.status = "ok"
        /\ last'.path = last.path)
           => DOMAIN store' = DOMAIN store \ {last.reqs[1].key}]_vars

\* the call of caller c has its answer
Answered(c) == calls[c].pc \in {"answered", "done"}

\* what readFile returns for a body
ReadAs(encoding, bytes) ==
    IF encoding = "utf8" THEN String(decode(bytes)) ELSE Uint8Array(bytes)

\* C17: calls of independent callers interleave safely.  Two writeFile calls
\* on one path that ran at the same time: once both have their answer the store
\* holds, whole, the payload of the one the store applied last.  A readFile
\* returns, whole, what the key held when it was issued or the payload of a
\* writeFile that ran at the same time, and NotFound only if the key was
\* absent when it was issued.
C17_RaceSafe ==
    /\ \A c, d \in Callers :
           (/\ c # d
            /\ Answered(c) /\ Answered(d)
            /\ d \in calls[c].raced /\ c \in calls[d].raced
            /\ calls[c].op = "writeFile" /\ calls[d].op = "writeFile"
            /\ calls[c].status = "ok" /\ calls[d].status = "ok"
            /\ this_normalizePath(calls[c].path) = this_normalizePath(calls[d].path)
            /\ applied = c)
               => ContentAt(store, this_normalizePath(calls[c].path)) = Payload(calls[c].input)
    /\ \A c \in Callers :
           (calls[c].op = "readFile" /\ Answered(c))
               => \E s \in calls[c].seen :
                      IF s.present
                      THEN /\ calls[c].status = "ok"
                           /\ calls[c].value = ReadAs(calls[c].encoding, s.bytes)
                      ELSE calls[c].status = "ENOENT"

\* two writes of a/x with different payloads ran at the same time; the store
\* applied the one of caller 1 last
C17_Witness ==
    /\ calls[1].pc = "done" /\ calls[2].pc = "done"
    /\ calls[1].op = "writeFile" /\ calls[2].op = "writeFile"
    /\ calls[1].path = P_a_x /\ calls[2].path = P_a_x
    /\ calls[1].input = BytesInput /\ calls[2].input = TextInput
    /\ 2 \in calls[1].raced /\ 1 \in calls[2].raced
    /\ applied = 1
    /\ store[P_a_x] = <<255>>

\* the path has a segment (a run between separators) that is exactly seg
HasSegment(p, seg) ==
    \E i \in 1..Len(p) :
        /\ i = 1 \/ p[i - 1] = "/"
        /\ i + Len(seg) - 1 <= Len(p)
        /\ SubSeq(p, i, i + Len(seg) - 1) = seg
        /\ i + Len(seg) - 1 = Len(p) \/ p[i + Len(seg)] = "/"

\* C21: normalize rewrites a path exactly when, its one leading separator
\* stripped, it holds the hash pattern and none of its segments is "objects"
\* (a longer name with "objects" inside it does not count): such a path comes
\* out ending in refs/heads/<matched-text>, every other path comes out as it
\* went in, less the stripped separator.
C21_RewriteCondition ==
    Len(nout) >= 1
        => LET p == Stripped(nin)
               found_sha == SHA_MATCHER_exec(p)
           IN IF found_sha.found /\ ~HasSegment(p, STR_objects)
              THEN endsWith(nout[1], STR_refs_heads \o found_sha.text)
              ELSE nout[1] = p

\* the keys whose presence or payload a step changes
Changed ==
    {k \in DOMAIN store \cup DOMAIN store' : ContentAt(store, k) # ContentAt(store', k)}

\* C22: readFile, readdir, stat and lstat leave the store as it is; writeFile
\* and mkdir create or overwrite one object, unlink and rmdir remove at most
\* one; every other key and payload stays.
C22_Frame ==
    [][/\ last'.op \in {"readFile", "readdir", "stat", "lstat"} => store' = store
       /\ last'.op \in {"writeFile", "mkdir"}
              => /\ Changed \subseteq {last'.reqs[i].key : i \in DOMAIN last'.reqs}
                 /\ Cardinality(Changed) <= 1
                 /\ last'.status = "ok" => last'.reqs[1].key \in DOMAIN store'
       /\ last'.op \in {"unlink", "rmdir"}
              => /\ Changed \subseteq DOMAIN store \ DOMAIN store'
                 /\ Cardinality(Changed) <= 1]_vars

\* a/x was written and unlinked again, and the other object is still there
C22_Witness ==
    /\ last.op = "unlink"
    /\ last.status = "ok"
    /\ P_a_x \in unlinked
    /\ P_a_x \notin DOMAIN store
    /\ DOMAIN store # {}

\* C23: rmdir does not look for children: rmdir(p) of a directory with keys
\* under its prefix succeeds, removes the marker and nothing else, and a
\* readdir(p) right after it still returns those children.
C23_RmdirNonEmpty ==
    [][/\ (/\ last'.op = "rmdir"
           /\ MarkerOf(last'.path) \in DOMAIN store
           /\ ChildrenOf(store, MarkerOf(last'.path)) # {})
              => /\ last'.status = "ok"
                 /\ DOMAIN store' = DOMAIN store \ {MarkerOf(last'.path)}
                 /\ \A k \in DOMAIN store' : store'[k] = store[k]
       /\ (/\ last.op = "rmdir"
           /\ last.status = "ok"
           /\ last'.op = "readdir"
           /\ last'.path = last.path
           /\ ChildrenOf(store, MarkerOf(last.path)) # {})
              => /\ last'.status = "ok"
                 /\ {last'.value[i] : i \in DOMAIN last'.value}
                        = ChildrenOf(store, MarkerOf(last.path))]_vars

\* writeFile turns text with an encoding other than utf8 down before it
\* reaches the store
RejectsEncoding(call) ==
    call.op = "writeFile" /\ call.input.type = "string" /\ call.encoding \notin {"utf8", "none"}

\* stat and lstat of a path ending in "/" answer without the store
DirectoryShaped(call) ==
    call.op \in {"stat", "lstat"} /\ endsWith(call.path, STR_slash)

\* a refused request is reported and not sent again; the call ends with a
\* result or an error
ReportsFailure(call) ==
    /\ (call.fault /\ call.reqs # <<>>) => call.status # "ok"
    /\ call.status \in {"ok", "ENOENT", "RAW"}

\* C24 as stated: every call but a directory-shaped stat or lstat issues
\* exactly one store request, a directory-shaped stat or lstat none; a refused
\* request is reported to the caller and not sent again.
C24_ExactlyOneRequest ==
    last.op # "none"
        => /\ Len(last.reqs) = IF DirectoryShaped(last) THEN 0 ELSE 1
           /\ ReportsFailure(last)

\* C24 as amended: as stated, except that a writeFile of text with an encoding
\* other than utf8 issues no request at all.
C24_SingleFlight ==
    last.op # "none"
        => /\ Len(last.reqs) = IF DirectoryShaped(last) \/ RejectsEncoding(last) THEN 0 ELSE 1
           /\ ReportsFailure(last)

\* the store refused the put of a writeFile: one request, and an error
C24_Witness ==
    /\ last.op = "writeFile"
    /\ last.fault
    /\ Len(last.reqs) = 1
    /\ last.status = "ENOENT"

\* C25: setting the length to n >= 0 leaves the ArrayProperty with floor(n)
\* elements: a longer array keeps its elements where they were and gains empty
\* ones at its end, a shorter one loses elements at its end only, and an equal
\* length changes nothing.
C25_SetLength ==
    [][(/\ trapped'.trap = "set"
        /\ trapped'.key = "length"
        /\ ~trapped'.number.nan
        /\ trapped'.number.tenths >= 0)
           => LET n == Math_floor(trapped'.number)
                  before == target.property
                  after == target'.property
              IN /\ Len(after) = n
                 /\ \A i \in 1..n : after[i] = IF i <= Len(before) THEN before[i]
                                               ELSE EmptyItem(target.reference)]_vars

\* the array <<v, w, w>> was cut to its first two elements by length = 2.5
C25_Witness ==
    /\ trapped.trap = "set"
    /\ trapped.key = "length"
    /\ trapped.number = Num(25)
    /\ trapped.result = "true"
    /\ target.property = <<"v", "w">>

\* C26: setLength returns false for a length below 0 and true otherwise, and
\* leaves the ArrayProperty as it is when the length is below 0.
C26_NegativeLength ==
    [][(trapped'.trap = "set" /\ trapped'.key = "length" /\ ~trapped'.number.nan)
           => IF trapped'.number.tenths < 0
              THEN trapped'.result = "false" /\ target'.property = target.property
              ELSE trapped'.result = "true"]_vars

\* C27: while a proxied method is executing, lastCalledMethod is its name (the
\* name of the innermost one while a nested call is executing), and it is ""
\* whenever none is executing.
C27_LastCalledMethod ==
    target.lastCalledMethod = IF running = <<>> THEN "" ELSE running[Len(running)]

====
